---- MODULE Spec2Model ----
(***************************************************************************)
(* Model of the two UI units of the repository:                            *)
(*   - PaymentsManagement (src/src/pages/admin/PaymentsManagement.tsx)     *)
(*   - LoadingSpinner     (src/src/components/LoadingSpinner.tsx)          *)
(* JavaScript strings are modelled as sequences of one-character strings,  *)
(* so that toLowerCase, includes and trim are computed, not assumed.       *)
(* A null string is the sentinel Null; a null profiles record is NoProfile.*)
(***************************************************************************)
EXTENDS Integers, Sequences, FiniteSets, TLC

VARIABLES
    \* ---- PaymentsManagement ----
    pmMounted,        \* the component instance is mounted
    searchTerm,       \* useState("")
    payments,         \* useState<Payment[]>([])
    isLoading,        \* useState(true)
    error,            \* useState<string | null>(null)
    pmEffectRan,      \* the useEffect body has run at least once
    pmEffectDeps,     \* dependency array seen by the last effect run
    fetchesIssued,    \* number of supabase queries started by this instance
    fetchesInFlight,  \* queries started and not yet settled
    lastOutcome,      \* "none" | "ok" | "err": how the last settled fetch ended
    lastMessage,      \* message of the last failure (Null if none)
    \* ---- LoadingSpinner ----
    lsMounted,        \* the component instance is mounted
    timeout,          \* the timeout prop (ms)
    timeoutReached,   \* useState(false)
    loadingTime,      \* useState(0)
    timeoutId,        \* due time of the pending setTimeout, NoTimer if none
    interval,         \* next due time of the setInterval, NoTimer if none
    lsEffectRan,      \* the useEffect body has run at least once
    lsEffectDeps,     \* dependency array seen by the last effect run
    now,              \* simulated clock (ms since mount)
    timeoutChanged,   \* the timeout prop was changed since mount
    unmountedAt       \* clock value at unmount, NoTimer while mounted

pmVars == <<pmMounted, searchTerm, payments, isLoading, error, pmEffectRan,
            pmEffectDeps, fetchesIssued, fetchesInFlight, lastOutcome,
            lastMessage>>
lsVars == <<lsMounted, timeout, timeoutReached, loadingTime, timeoutId,
            interval, lsEffectRan, lsEffectDeps, now, timeoutChanged,
            unmountedAt>>
vars == <<pmVars, lsVars>>

----------------------------------------------------------------------------
(* Bounds *)

MaxPayments == 2
MaxFetches == 2
MaxTime == 3000

----------------------------------------------------------------------------
(* JavaScript strings *)

Null == <<"<null>">>
NoProfile == [absent |-> TRUE]

UpperChars == <<"A","B","C","D","E","F","G","H","I","J","K","L","M",
                "N","O","P","Q","R","S","T","U","V","W","X","Y","Z">>
LowerChars == <<"a","b","c","d","e","f","g","h","i","j","k","l","m",
                "n","o","p","q","r","s","t","u","v","w","x","y","z">>

LowerChar(c) ==
    IF \E i \in 1..26 : UpperChars[i] = c
    THEN LowerChars[CHOOSE i \in 1..26 : UpperChars[i] = c]
    ELSE c

UpperChar(c) ==
    IF \E i \in 1..26 : LowerChars[i] = c
    THEN UpperChars[CHOOSE i \in 1..26 : LowerChars[i] = c]
    ELSE c

toLowerCase(s) == [i \in 1..Len(s) |-> LowerChar(s[i])]

includes(hay, needle) ==
    \E k \in 0..Len(hay) :
        /\ k + Len(needle) <= Len(hay)
        /\ \A j \in 1..Len(needle) : hay[k + j] = needle[j]

IsWhitespace(c) == c \in {" ", "\t", "\n"}

trim(s) ==
    IF \A i \in 1..Len(s) : IsWhitespace(s[i])
    THEN <<>>
    ELSE LET first == CHOOSE i \in 1..Len(s) :
                          /\ ~IsWhitespace(s[i])
                          /\ \A j \in 1..(i-1) : IsWhitespace(s[j])
             last  == CHOOSE i \in 1..Len(s) :
                          /\ ~IsWhitespace(s[i])
                          /\ \A j \in (i+1)..Len(s) : IsWhitespace(s[j])
         IN  SubSeq(s, first, last)

\* JavaScript truthiness of a value of type string | null
Truthy(s) == s /= Null /\ s /= <<>>

\* a || ""  for a : string | null
OrEmpty(s) == IF Truthy(s) THEN s ELSE <<>>

BoundedSeq(S, n) == UNION {[1..k -> S] : k \in 0..n}

----------------------------------------------------------------------------
(* Payment records returned by the query *)

Statuses == { <<"p","a","i","d">>,
              <<"C","o","m","p","l","e","t","e","d">>,
              <<"P","E","N","D","I","N","G">>,
              <<"f","a","i","l","e","d">>,
              <<"r","e","f","u","n","d","e","d">> }

NullableIds == { Null, <<"T","x","9">> }
NullableRefs == { Null, <<"r","e","f">> }
Emails == { <<"a","@","X">> }
FirstNames == { Null, <<>>, <<" ">>, <<"A","l">> }
LastNames == { Null, <<" ">>, <<"B">> }

Profiles == {NoProfile} \cup
    [email : Emails, first_name : FirstNames, last_name : LastNames]

Payment(st, tid, ref, prof) ==
    [status |-> st, transaction_id |-> tid, payment_reference |-> ref,
     profiles |-> prof]

\* One field group varies at a time around a base record.
SamplePayments ==
    {Payment(st, <<"T","x","9">>, Null, NoProfile) : st \in Statuses}
    \cup {Payment(<<"p","a","i","d">>, tid, ref, NoProfile) :
             tid \in NullableIds, ref \in NullableRefs}
    \cup {Payment(<<"p","a","i","d">>, Null, Null, prof) : prof \in Profiles}

PaymentLists == BoundedSeq(SamplePayments, MaxPayments)

SearchTerms == { <<>>, <<"t","X">>, <<"@","x">>, <<"z">> }

Messages == { <<>>, <<"d","e","n","i","e","d">> }

----------------------------------------------------------------------------
(* PaymentsManagement: values derived on every render *)

\* payment.transaction_id?.toLowerCase().includes(searchTerm.toLowerCase())
OptIncludes(field, term) ==
    IF field = Null THEN FALSE
    ELSE includes(toLowerCase(field), toLowerCase(term))

\* payment.profiles?.email && payment.profiles.email.toLowerCase().includes(..)
EmailIncludes(prof, term) ==
    IF prof = NoProfile THEN FALSE
    ELSE /\ Truthy(prof.email)
         /\ includes(toLowerCase(prof.email), toLowerCase(term))

MatchesSearch(payment, term) ==
    \/ OptIncludes(payment.transaction_id, term)
    \/ OptIncludes(payment.payment_reference, term)
    \/ EmailIncludes(payment.profiles, term)

filterBySearch(term, list) ==
    LET Test(payment) == MatchesSearch(payment, term)
    IN  SelectSeq(list, Test)

filteredPayments == filterBySearch(searchTerm, payments)

getCustomerName(payment) ==
    IF payment.profiles = NoProfile THEN <<"U","n","k","n","o","w","n">>
    ELSE LET firstName == OrEmpty(payment.profiles.first_name)
             lastName  == OrEmpty(payment.profiles.last_name)
         IN  IF firstName /= <<>> \/ lastName /= <<>>
             THEN trim(firstName \o <<" ">> \o lastName)
             ELSE payment.profiles.email

IsCompleted(payment) ==
    \/ toLowerCase(payment.status) = <<"p","a","i","d">>
    \/ toLowerCase(payment.status) = <<"c","o","m","p","l","e","t","e","d">>

IsPendingCaseSensitive(payment) ==
    payment.status = <<"p","e","n","d","i","n","g">>

IsPending(payment) ==
    toLowerCase(payment.status) = <<"p","e","n","d","i","n","g">>

IsFailed(payment) ==
    toLowerCase(payment.status) = <<"f","a","i","l","e","d">>

completedCount == Len(SelectSeq(payments, IsCompleted))
pendingCount == Len(SelectSeq(payments, IsPending))
failedCount == Len(SelectSeq(payments, IsFailed))

----------------------------------------------------------------------------
(* PaymentsManagement: the fetch effect and its continuations *)

\* A plausible slip: the effect re-runs whenever the search term changes.
FetchEffectDepsOnSearch == <<searchTerm>>

\* useEffect(..., [])
FetchEffectDeps == <<>>

\* State written by the continuation after the await when the query
\* returned { data, error: null }:  setPayments(data || []) ; finally.
OnFetchSuccessNoFinally(data, hasData) ==
    [payments |-> IF hasData THEN data ELSE <<>>,
     error |-> error, isLoading |-> isLoading]

OnFetchSuccess(data, hasData) ==
    [payments |-> IF hasData THEN data ELSE <<>>,
     error |-> error, isLoading |-> FALSE]

\* State written when the query returned an error or the call threw:
\* catch { setError(err.message) } finally { setIsLoading(false) }.
OnFetchFailureNoFinally(message) ==
    [payments |-> payments, error |-> message, isLoading |-> isLoading]

OnFetchFailure(message) ==
    [payments |-> payments, error |-> message, isLoading |-> FALSE]

PMInit ==
    /\ pmMounted = TRUE
    /\ searchTerm = <<>>
    /\ payments = <<>>
    /\ isLoading = TRUE
    /\ error = Null
    /\ pmEffectRan = FALSE
    /\ pmEffectDeps = <<>>
    /\ fetchesIssued = 0
    /\ fetchesInFlight = 0
    /\ lastOutcome = "none"
    /\ lastMessage = Null

\* The effect body: fetchPayments() up to the await.
PMRunEffect ==
    /\ pmMounted
    /\ ~pmEffectRan \/ pmEffectDeps /= FetchEffectDeps
    /\ fetchesIssued < MaxFetches
    /\ pmEffectRan' = TRUE
    /\ pmEffectDeps' = FetchEffectDeps
    /\ isLoading' = TRUE
    /\ error' = Null
    /\ fetchesIssued' = fetchesIssued + 1
    /\ fetchesInFlight' = fetchesInFlight + 1
    /\ UNCHANGED <<pmMounted, searchTerm, payments, lastOutcome, lastMessage>>
    /\ UNCHANGED lsVars

\* onChange={(e) => setSearchTerm(e.target.value)}
SetSearchTerm(term) ==
    /\ pmMounted
    /\ searchTerm' = term
    /\ UNCHANGED <<pmMounted, payments, isLoading, error, pmEffectRan,
                   pmEffectDeps, fetchesIssued, fetchesInFlight, lastOutcome,
                   lastMessage>>
    /\ UNCHANGED lsVars

\* The awaited query resolves without error; the code has no mounted guard.
FetchSucceed(data, hasData) ==
    /\ fetchesInFlight > 0
    /\ LET s == OnFetchSuccess(data, hasData)
       IN  /\ payments' = s.payments
           /\ error' = s.error
           /\ isLoading' = s.isLoading
    /\ fetchesInFlight' = fetchesInFlight - 1
    /\ lastOutcome' = "ok"
    /\ UNCHANGED <<pmMounted, searchTerm, pmEffectRan, pmEffectDeps,
                   fetchesIssued, lastMessage>>
    /\ UNCHANGED lsVars

\* The awaited query returns an error (re-thrown) or the call throws.
FetchFail(message) ==
    /\ fetchesInFlight > 0
    /\ LET s == OnFetchFailure(message)
       IN  /\ payments' = s.payments
           /\ error' = s.error
           /\ isLoading' = s.isLoading
    /\ fetchesInFlight' = fetchesInFlight - 1
    /\ lastOutcome' = "err"
    /\ lastMessage' = message
    /\ UNCHANGED <<pmMounted, searchTerm, pmEffectRan, pmEffectDeps,
                   fetchesIssued>>
    /\ UNCHANGED lsVars

\* The effect returns no cleanup function: unmount cancels nothing.
PMUnmount ==
    /\ pmMounted
    /\ pmMounted' = FALSE
    /\ UNCHANGED <<searchTerm, payments, isLoading, error, pmEffectRan,
                   pmEffectDeps, fetchesIssued, fetchesInFlight, lastOutcome,
                   lastMessage>>
    /\ UNCHANGED lsVars

NextPM ==
    \/ PMRunEffect
    \/ \E term \in SearchTerms : SetSearchTerm(term)
    \/ \E data \in PaymentLists : FetchSucceed(data, TRUE)
    \/ FetchSucceed(<<>>, FALSE)
    \/ \E message \in Messages : FetchFail(message)
    \/ PMUnmount

----------------------------------------------------------------------------
(* LoadingSpinner *)

DefaultTimeout == 10000
IntervalMs == 1000
NoTimer == -1

TimeoutValues == {1000, 1500, DefaultTimeout}
ClockSteps == {100, 500}

\* useEffect(..., [timeout])
TimerEffectDeps == <<timeout>>

\* A plausible slip: the one-shot timer ignores the prop.
TimeoutDelayIgnoringProp == DefaultTimeout

\* setTimeout(..., timeout)
TimeoutDelay == timeout

\* A plausible slip: the counter is advanced in milliseconds.
NextLoadingTimeMs(prev) == prev + IntervalMs

\* setLoadingTime(prev => prev + 1)
NextLoadingTime(prev) == prev + 1

\* A plausible slip: the cleanup forgets clearInterval(interval).
ClearIntervalForgotten == interval

\* clearInterval(interval) in the effect cleanup
ClearInterval == NoTimer

\* clearTimeout(timeoutId) in the effect cleanup
ClearTimeout == NoTimer

LSInit ==
    /\ lsMounted = TRUE
    /\ timeout \in TimeoutValues
    /\ timeoutReached = FALSE
    /\ loadingTime = 0
    /\ timeoutId = NoTimer
    /\ interval = NoTimer
    /\ lsEffectRan = FALSE
    /\ lsEffectDeps = <<>>
    /\ now = 0
    /\ timeoutChanged = FALSE
    /\ unmountedAt = NoTimer

LSEffectPending ==
    lsMounted /\ (~lsEffectRan \/ lsEffectDeps /= TimerEffectDeps)

\* The effect: cleanup of the previous run (if any), then both timers are
\* scheduled afresh.
LSRunEffect ==
    /\ LSEffectPending
    /\ lsEffectRan' = TRUE
    /\ lsEffectDeps' = TimerEffectDeps
    /\ timeoutId' = now + TimeoutDelay
    /\ interval' = now + IntervalMs
    /\ UNCHANGED <<lsMounted, timeout, timeoutReached, loadingTime, now,
                   timeoutChanged, unmountedAt>>
    /\ UNCHANGED pmVars

\* The one-shot callback: setTimeoutReached(true)
TimeoutFire ==
    /\ timeoutId /= NoTimer
    /\ now >= timeoutId
    /\ timeoutReached' = TRUE
    /\ timeoutId' = NoTimer
    /\ UNCHANGED <<lsMounted, timeout, loadingTime, interval, lsEffectRan,
                   lsEffectDeps, now, timeoutChanged, unmountedAt>>
    /\ UNCHANGED pmVars

\* The interval callback: setLoadingTime(prev => prev + 1)
IntervalTick ==
    /\ interval /= NoTimer
    /\ now >= interval
    /\ loadingTime' = NextLoadingTime(loadingTime)
    /\ interval' = interval + IntervalMs
    /\ UNCHANGED <<lsMounted, timeout, timeoutReached, timeoutId, lsEffectRan,
                   lsEffectDeps, now, timeoutChanged, unmountedAt>>
    /\ UNCHANGED pmVars

\* The parent re-renders the spinner with another timeout prop.
ChangeTimeout(t) ==
    /\ lsMounted
    /\ t /= timeout
    /\ timeout' = t
    /\ timeoutChanged' = TRUE
    /\ UNCHANGED <<lsMounted, timeoutReached, loadingTime, timeoutId,
                   interval, lsEffectRan, lsEffectDeps, now, unmountedAt>>
    /\ UNCHANGED pmVars

\* Unmount runs the cleanup of the last effect run.
LSUnmount ==
    /\ lsMounted
    /\ lsMounted' = FALSE
    /\ timeoutId' = ClearTimeout
    /\ interval' = ClearInterval
    /\ unmountedAt' = now
    /\ UNCHANGED <<timeout, timeoutReached, loadingTime, lsEffectRan,
                   lsEffectDeps, now, timeoutChanged>>
    /\ UNCHANGED pmVars

\* Simulated time passes; a due callback and a pending effect run first.
AdvanceTime(d) ==
    /\ now + d <= MaxTime
    /\ ~LSEffectPending
    /\ timeoutId /= NoTimer => now + d <= timeoutId
    /\ interval /= NoTimer => now + d <= interval
    /\ now' = now + d
    /\ UNCHANGED <<lsMounted, timeout, timeoutReached, loadingTime, timeoutId,
                   interval, lsEffectRan, lsEffectDeps, timeoutChanged,
                   unmountedAt>>
    /\ UNCHANGED pmVars

NextLS ==
    \/ LSRunEffect
    \/ TimeoutFire
    \/ IntervalTick
    \/ \E t \in TimeoutValues : ChangeTimeout(t)
    \/ LSUnmount
    \/ \E d \in ClockSteps : AdvanceTime(d)

----------------------------------------------------------------------------
(* Specifications: the two components never interact, so each is checked  *)
(* with the other one left in its initial state.                          *)

InitPM == PMInit /\ LSInit /\ timeout = DefaultTimeout
SpecPM == InitPM /\ [][NextPM]_vars

InitLS == LSInit /\ PMInit
SpecLS == InitLS /\ [][NextLS]_vars

----------------------------------------------------------------------------
(* Properties of PaymentsManagement (checked under SpecPM) *)

\* C1: in every state of a mounted instance whose last fetch failed, error
\* is the failure's message, payments is the empty list and isLoading is
\* false.
C1_FailedFetchState ==
    (pmMounted /\ lastOutcome = "err") =>
        /\ error = lastMessage
        /\ payments = <<>>
        /\ isLoading = FALSE

C1_Witness ==
    /\ pmMounted
    /\ lastOutcome = "err"
    /\ error = <<"d","e","n","i","e","d">>
    /\ fetchesInFlight = 0

\* C2: once the instance is unmounted, no step changes payments, error or
\* isLoading (a fetch settling late updates nothing).
C2_NoUpdateAfterUnmount ==
    [][~pmMounted => UNCHANGED <<payments, error, isLoading>>]_vars

\* C3: one mount issues exactly one fetch: never two in flight, never a
\* second one started, whatever happens after the effect ran (search-term
\* changes, success, failure), and a settled fetch leaves none in flight.
C3_ExactlyOneFetch ==
    /\ fetchesInFlight <= 1
    /\ fetchesIssued <= 1
    /\ pmEffectRan => fetchesIssued = 1
    /\ lastOutcome /= "none" => (fetchesIssued = 1 /\ fetchesInFlight = 0)

C3_Witness ==
    /\ pmMounted
    /\ lastOutcome = "err"
    /\ searchTerm /= <<>>
    /\ fetchesIssued = 1
    /\ fetchesInFlight = 0

\* C4: while mounted, isLoading is true exactly when no fetch has settled
\* yet, whether the fetch later succeeds or fails.
C4_LoadingIffUnsettled ==
    pmMounted => (isLoading <=> lastOutcome = "none")

C4_Witness ==
    /\ pmMounted
    /\ lastOutcome = "ok"
    /\ Len(payments) > 0
    /\ ~isLoading

\* C7: with the empty search term the filtered list is the whole payments
\* list, in the same order.
C7_EmptyTermKeepsAll ==
    searchTerm = <<>> => filteredPayments = payments

\* C8: getCustomerName returns "Unknown" without profiles and never returns
\* the empty string for any payment held by the component.
C8_NameNeverEmpty ==
    \A i \in 1..Len(payments) :
        /\ getCustomerName(payments[i]) /= <<>>
        /\ payments[i].profiles = NoProfile =>
               getCustomerName(payments[i]) = <<"U","n","k","n","o","w","n">>

\* Case-insensitive comparison, independent of toLowerCase.
EqualsIgnoreCase(a, b) ==
    /\ Len(a) = Len(b)
    /\ \A i \in 1..Len(a) : UpperChar(a[i]) = UpperChar(b[i])

RecognizedStatus(st) ==
    \E name \in { <<"p","a","i","d">>,
                  <<"c","o","m","p","l","e","t","e","d">>,
                  <<"p","e","n","d","i","n","g">>,
                  <<"f","a","i","l","e","d">> } : EqualsIgnoreCase(st, name)

\* C9: the three counts add up to at most the number of payments, with
\* equality exactly when every status is a recognized one, compared
\* case-insensitively.
C9_CountsPartition ==
    LET sum == completedCount + pendingCount + failedCount
    IN  /\ sum <= Len(payments)
        /\ (sum = Len(payments)) <=>
               \A i \in 1..Len(payments) : RecognizedStatus(payments[i].status)

C9_Witness ==
    /\ Len(payments) = 2
    /\ payments[1].status = <<"P","E","N","D","I","N","G">>
    /\ payments[2].status = <<"r","e","f","u","n","d","e","d">>
    /\ pendingCount = 1
    /\ completedCount + pendingCount + failedCount = 1

----------------------------------------------------------------------------
(* Properties of LoadingSpinner (checked under SpecLS) *)

\* C5: after unmount both timers are cancelled, and no step changes
\* loadingTime or timeoutReached, however far the clock advances.
C5_NoTimerAfterUnmount ==
    /\ [](~lsMounted => (timeoutId = NoTimer /\ interval = NoTimer))
    /\ [][~lsMounted => UNCHANGED <<loadingTime, timeoutReached>>]_vars

\* Unmounted before the timeout elapsed, and the clock has since passed
\* both the timeout and a further second.
C5_Witness ==
    /\ ~lsMounted
    /\ lsEffectRan
    /\ unmountedAt > 0
    /\ unmountedAt < timeout
    /\ now > timeout
    /\ now >= unmountedAt + IntervalMs
    /\ ~timeoutReached

\* C6: timeoutReached starts false and never goes back to false; while the
\* timeout prop is unchanged it is false before the timeout has elapsed
\* and true afterwards (at the very instant of the timeout the callback is
\* either done or due); with timeout = 1000, at 1100 ms it is true and
\* loadingTime is at least 1.
C6_TimeoutReachedOnce ==
    /\ ~timeoutReached
    /\ [][timeoutReached => timeoutReached']_vars
    /\ []((lsMounted /\ ~timeoutChanged) =>
            /\ now < timeout => ~timeoutReached
            /\ now > timeout => timeoutReached
            /\ now = timeout => (timeoutReached \/ timeoutId = timeout)
            /\ (timeout = 1000 /\ now = 1100) =>
                   (timeoutReached /\ loadingTime >= 1))

C6_Witness ==
    /\ lsMounted
    /\ ~timeoutChanged
    /\ timeout = 1000
    /\ now = 1100
    /\ timeoutReached
    /\ loadingTime >= 1

\* C10: loadingTime starts at 0 and, while mounted, changes only by +1 and
\* only when the interval callback fires; a change of the timeout prop, and
\* the effect re-run it causes, leave loadingTime and timeoutReached as they
\* are, and the re-run schedules the one-shot timer with the new duration.
C10_ElapsedSurvivesRestart ==
    /\ loadingTime = 0
    /\ [][lsMounted =>
            /\ loadingTime' \in {loadingTime, loadingTime + 1}
            /\ loadingTime' /= loadingTime =>
                   (interval /= NoTimer /\ now >= interval
                    /\ interval' = interval + IntervalMs)
            /\ timeout' /= timeout =>
                   (loadingTime' = loadingTime
                    /\ timeoutReached' = timeoutReached)
            /\ (lsEffectRan /\ lsEffectDeps' /= lsEffectDeps) =>
                   (/\ timeoutId' = now + timeout
                    /\ loadingTime' = loadingTime
                    /\ timeoutReached' = timeoutReached)]_vars

C10_Witness ==
    /\ lsMounted
    /\ timeoutChanged
    /\ lsEffectDeps = <<timeout>>
    /\ loadingTime >= 1
    /\ timeoutId = now + timeout

====
